---- MODULE Spec2Model ----
(***************************************************************************)
(* sqsadmin: the peek collector (peekMessages), the targeted refetch       *)
(* (receiveMessageById) and the plain receive (receiveMessages) of         *)
(* app/lib/sqs.ts, first revision of the file (lines 1-466), run against   *)
(* a transport whose replies are arbitrary or come from a queue; the       *)
(* DELETE handler of the messages endpoint; the queue page.                *)
(*                                                                         *)
(* Encoding of JavaScript values:                                          *)
(*   - an optional value (string | undefined, Message | null) is a         *)
(*     sequence: << >> when absent, <<v>> when present;                    *)
(*   - strings are numbers: message ids are 1..NumIds, '' is EmptyString;  *)
(*   - a decimal string (an attribute value) is the sequence of its digits.*)
(* An action is what a function does when one of its awaits resolves.      *)
(* Specifications:                                                         *)
(*   Spec        one invocation of one exported function of app/lib/sqs.ts *)
(*   DeleteSpec  one DELETE request to the messages endpoint (route.ts),   *)
(*               with receiveMessageById and deleteMessage inside it       *)
(*   QueueSpec   two invocations in a row against a queue with visibility  *)
(*               timeouts that nothing else touches                        *)
(*   RepeatSpec  peekMessages twice with the same maxMessages, same queue  *)
(*   ConcSpec    two invocations interleaved at their awaits, same queue   *)
(*   LiveSpec    one invocation of peekMessages, every await resolving     *)
(*   TwinSpec    two invocations of peekMessages given the same replies    *)
(*   CallerSpec  one invocation, its queue reference and its caller, who   *)
(*               may give up on it                                         *)
(*   TwoDeletesSpec  two DELETE requests in a row against a queue          *)
(*   PageSpec    the queue page, components/QueueDetail.tsx                *)
(***************************************************************************)
EXTENDS Integers, Sequences, FiniteSets, TLC

\* ---- bounds of the model
NumIds == 2
MaxBatch == 2
MaxK == 3
MaxIntervals == 2
MaxFetches == 2

\* ---- program constants
EmptyString == 0
MIN_REQUESTS == 4
PER_REQUEST == 8
EMPTY_STOP_AFTER == 2
FourAttempts == 5 - 1
MAX_ATTEMPTS == 5
BATCH_MAX == 10
LONG_VISIBILITY == 30
DEFAULT_MAX == 10
PAGE_MAX == 50
DELETE_MAX_ATTEMPTS == 3

VARIABLES
  op,               \* the function invoked: "peek", "refetch" or "receive"
  pc,               \* the await the invocation is suspended at, or "done"
  outcome,          \* "running", "returned" or "threw"
  result,           \* peek: the returned array; refetch: << >> (null) or <<message>>
  maxMessages,      \* peekMessages' parameter
  messageId,        \* receiveMessageById's parameter
  approximateCount,
  requestsNeeded,
  attempt,
  seenMessageIds,
  allMessages,
  receiveCalls,     \* transport: ReceiveMessageCommands sent by this invocation
  allFailed,        \* transport: every one of them was rejected
  allEmpty,         \* transport: every one of them returned no message
  lastReply,        \* transport: the latest reply: "none", "error", "empty", "messages"
  firstDelivery,    \* transport: per distinct id, the first raw message delivered
  redelivered,      \* transport: some id was delivered more than once
  command,          \* transport: the input of the latest ReceiveMessageCommand
  route,            \* the DELETE handler: "none", "json", "refetch", "delete", "responded"
  request,          \* the DELETE handler: the parsed request body
  status,           \* the DELETE handler: the HTTP status answered, 0 before
  handle,           \* deleteMessage's parameter receiptHandle
  deleteAttempt,    \* deleteMessage's attempt
  deleteCalls,      \* transport: the receipt handles of the DeleteMessageCommands sent
  sent,             \* transport: the classes of the commands sent so far
  transport,        \* "any": replies are arbitrary; "queue": they come from the queue
  stored,           \* the queue: the ids of the messages it holds
  hidden,           \* the queue: those within a visibility timeout
  second,           \* a sequence of invocations: the second one has begun
  previous,         \* a sequence of invocations: what the first one returned
  suspended,        \* interleaved invocations: the locals of the one not running
  overlapped,       \* interleaved invocations: one resumed while both were under way
  script,           \* transport: the receive reply two twin invocations both get
  queueUrl,         \* the parameter queueUrl of the invocation
  cancelled,        \* the caller of the invocation has given up on it
  mounted,          \* QueueDetail: the component is mounted
  pageMessages,     \* QueueDetail: the state messages, as ids
  deletingMessageIds, \* QueueDetail: the state deletingMessageIds
  handlers,         \* QueueDetail: the handleDeleteMessage calls awaiting their fetch
  refreshInterval,  \* QueueDetail: the state refreshInterval
  effectInterval,   \* QueueDetail: refreshInterval as the effect's cleanup closed over it
  intervals,        \* window: the ids of the intervals set and not cleared
  fetching,         \* QueueDetail: the fetchMessages calls awaiting their fetch
  deleted           \* the server: ids whose DELETE request was answered 200

vars == <<op, pc, outcome, result, maxMessages, messageId, approximateCount,
          requestsNeeded, attempt, seenMessageIds, allMessages, receiveCalls,
          allFailed, allEmpty, lastReply, firstDelivery, redelivered, command,
          route, request, status, handle, deleteAttempt, deleteCalls,
          sent, transport, stored, hidden, second, previous, suspended,
          overlapped, script, queueUrl, cancelled, mounted, pageMessages,
          deletingMessageIds, handlers, refreshInterval, effectInterval,
          intervals, fetching, deleted>>

\* the state of the queue page and of the window it runs in
page == <<mounted, pageMessages, deletingMessageIds, handlers, refreshInterval,
          effectInterval, intervals, fetching, deleted>>

\* what peekMessages, receiveMessageById and receiveMessages have no access to
frame == <<route, request, status, handle, deleteAttempt, deleteCalls,
           transport, second, previous, suspended, overlapped, queueUrl,
           cancelled, page>>

\* what deleteMessage and the DELETE handler have no access to
apart == <<transport, second, previous, suspended, overlapped, queueUrl,
           cancelled, page>>

\* the locals of an invocation and what the transport recorded of it
invocation == <<op, pc, outcome, result, maxMessages, messageId, approximateCount,
                requestsNeeded, attempt, seenMessageIds, allMessages, receiveCalls,
                allFailed, allEmpty, lastReply, firstDelivery, redelivered, command>>

\* the DELETE handler and deleteMessage
handler == <<route, request, status, handle, deleteAttempt, deleteCalls>>

\* the transport and the queue behind it
queue == <<sent, stored, hidden, script>>

\* ---- values

Max(a, b) == IF a >= b THEN a ELSE b
Min(a, b) == IF a <= b THEN a ELSE b

\* x || '' for an optional string
OrEmpty(x) == IF x = << >> THEN EmptyString ELSE x[1]

\* x || '0' for an optional decimal string
OrZero(x) == IF x = << >> THEN <<0>> ELSE x[1]

\* parseInt(s, 10) of a string of decimal digits
RECURSIVE ParseInt(_)
ParseInt(s) ==
  IF Len(s) = 0 THEN 0
  ELSE 10 * ParseInt(SubSeq(s, 1, Len(s) - 1)) + s[Len(s)]

\* Math.ceil(a / b) for a >= 0, b > 0
Ceil(a, b) == (a + b - 1) \div b

RequestsNeededPerMessage(count) == Max(MIN_REQUESTS, count)

\* Math.max(4, Math.ceil(approximateCount / 8))
RequestsNeeded(count) == Max(MIN_REQUESTS, Ceil(count, PER_REQUEST))

\* array.slice(0, end): a negative end counts from the end of the array
Slice(s, end) ==
  IF end >= 0 THEN SubSeq(s, 1, Min(end, Len(s)))
  ELSE SubSeq(s, 1, Max(Len(s) + end, 0))

ToMessageWithoutId(m) ==
  [id |-> EmptyString, body |-> OrEmpty(m.Body),
   receiptHandle |-> OrEmpty(m.ReceiptHandle)]

\* the Message built from a raw transport message
ToMessage(m) ==
  [id |-> OrEmpty(m.MessageId), body |-> OrEmpty(m.Body),
   receiptHandle |-> OrEmpty(m.ReceiptHandle)]

\* ---- the transport: every reply it can give

RawIds == {<< >>} \cup {<<i>> : i \in 1..NumIds}

IdSeqs == UNION {[1..n -> RawIds] : n \in 0..MaxBatch}

\* the raw message delivered at position i of the reply to call number call:
\* the receipt handle is new with every delivery
Delivery(rawId, call, i) ==
  [MessageId |-> rawId, Body |-> <<100 * call + 10 * i + OrEmpty(rawId)>>,
   ReceiptHandle |-> <<10 * call + i>>]

\* the number of the call a receipt handle was issued in
CallOf(receiptHandle) == receiptHandle \div 10

\* response.Messages of the successful replies to call number call
MessageLists(call) ==
  {<< >>} \cup {<<[i \in 1..Len(ids) |-> Delivery(ids[i], call, i)]>> : ids \in IdSeqs}

\* response.Messages || []
MessagesOf(Messages) == IF Messages = << >> THEN << >> ELSE Messages[1]

\* response.Attributes of the successful replies to GetQueueAttributes:
\* absent, present without the count, present with the count as a string
AttributeReplies ==
  {<< >>, <<[ApproximateNumberOfMessages |-> << >>]>>}
  \cup {<<[ApproximateNumberOfMessages |-> <<s>>]>> : s \in {<<0>>, <<5>>, <<3, 3>>}}

NoAttributes == [ApproximateNumberOfMessages |-> << >>]

\* getQueueAttributes: response.Attributes || {}, and {} when the call fails
GetQueueAttributes(failed, Attributes) ==
  IF failed THEN NoAttributes
  ELSE IF Attributes = << >> THEN NoAttributes ELSE Attributes[1]

\* transport bookkeeping of the reply to GetQueueAttributes: the call failed,
\* the reply has no count, or it has one
Lookup(failed, Attributes) ==
  IF failed THEN "lookup failed"
  ELSE IF GetQueueAttributes(failed, Attributes).ApproximateNumberOfMessages = << >>
       THEN "no count"
       ELSE "count"

\* transport bookkeeping: the positions of a reply that deliver an id for the
\* first time in this invocation
FirstTimers(messages, known) ==
  {i \in DOMAIN messages :
     /\ \A k \in DOMAIN known : OrEmpty(known[k].MessageId) # OrEmpty(messages[i].MessageId)
     /\ \A j \in 1..(i - 1) : OrEmpty(messages[j].MessageId) # OrEmpty(messages[i].MessageId)}

RECURSIVE Pick(_, _, _)
Pick(messages, idx, i) ==
  IF i > Len(messages) THEN << >>
  ELSE (IF i \in idx THEN <<messages[i]>> ELSE << >>) \o Pick(messages, idx, i + 1)

\* the classes of the commands handed to client.send
GetQueueAttributesCommand == "GetQueueAttributes"

ReceiveAndDeleteCommand == "DeleteMessage"

ReceiveMessageCommand == "ReceiveMessage"

DeleteMessageCommand == "DeleteMessage"

\* the queue after a command of class class that concerned the messages ids:
\* a receive starts their visibility timeout, a delete removes them
QueueAfter(class, ids) ==
  IF class = "DeleteMessage"
  THEN /\ stored' = stored \ ids
       /\ hidden' = hidden \ ids
  ELSE IF class = "ReceiveMessage"
       THEN /\ stored' = stored
            /\ hidden' = (hidden \cup ids) \cap stored
       ELSE UNCHANGED <<stored, hidden>>

\* the sequences without repetition of at most n elements of S
RECURSIVE Arrangements(_, _)
Arrangements(S, n) ==
  IF n = 0 THEN {<< >>}
  ELSE {<< >>} \cup {<<x>> \o t : x \in S, t \in Arrangements(S, n - 1)}

DistinctSeqs(S, n) ==
  {t \in Arrangements(S, n) : \A i, j \in DOMAIN t : t[i] = t[j] => i = j}

\* a stored message delivered at position i of the reply to call number call
QueueDelivery(id, call, i) == [Delivery(<<id>>, call, i) EXCEPT !.Body = <<id>>]

\* response.Messages of the replies of the queue to call number call: any of
\* its visible messages, in any order
QueueLists(call) ==
  {<< >>} \cup {<<[i \in 1..Len(ids) |-> QueueDelivery(ids[i], call, i)]>> :
                 ids \in DistinctSeqs(stored \ hidden, MaxBatch)}

\* response.Messages of the replies twin invocations are given: messages of a
\* queue, each at most once in a reply, in any order
TwinLists(call) ==
  {<< >>} \cup {<<[i \in 1..Len(ids) |-> QueueDelivery(ids[i], call, i)]>> :
                 ids \in DistinctSeqs(1..NumIds, MaxBatch)}

\* response.Messages of the replies of a queue that holds back nothing: all its
\* visible messages, as far as a reply has room, in any order
PromptLists(call) ==
  {<<[i \in 1..Len(ids) |-> QueueDelivery(ids[i], call, i)]>> :
     ids \in {t \in DistinctSeqs(stored \ hidden, MaxBatch) :
               Len(t) = Min(Cardinality(stored \ hidden), MaxBatch)}}

\* response.Messages of the successful replies to call number call
Replies(call) ==
  IF transport = "queue" THEN QueueLists(call)
  ELSE IF transport = "twin" THEN TwinLists(call)
       ELSE IF transport = "prompt" THEN PromptLists(call)
            ELSE MessageLists(call)

\* the ids of a list of raw messages
IdsOf(messages) == {OrEmpty(messages[i].MessageId) : i \in DOMAIN messages}

\* twin invocations get the same reply to their n-th receive call: the first to
\* make the call gets any reply, the other one that reply; neither makes a call
\* that the other, when it is still running, is two calls behind of
Twin(kind, messages) ==
  IF transport # "twin" THEN UNCHANGED script
  ELSE IF script.call = receiveCalls + 1
       THEN /\ script.kind = kind
            /\ script.messages = messages
            /\ UNCHANGED script
       ELSE /\ \/ suspended[1].pc = "done"
               \/ suspended[1].receiveCalls >= receiveCalls
            /\ script' = [call |-> receiveCalls + 1, kind |-> kind, messages |-> messages]

\* transport bookkeeping of one ReceiveMessageCommand and its reply
Transport(kind, messages) ==
  /\ Twin(kind, messages)
  /\ sent' = sent \cup {ReceiveMessageCommand}
  /\ QueueAfter(ReceiveMessageCommand, IdsOf(messages))
  /\ receiveCalls' = receiveCalls + 1
  /\ lastReply' = kind
  /\ allFailed' = (allFailed /\ kind = "error")
  /\ allEmpty' = (allEmpty /\ kind = "empty")
  /\ firstDelivery' = firstDelivery \o Pick(messages, FirstTimers(messages, firstDelivery), 1)
  /\ redelivered' = (redelivered \/ Cardinality(FirstTimers(messages, firstDelivery)) < Len(messages))

\* new ReceiveMessageCommand(input), sent
Send(input) == command' = <<input>>

\* ---- peekMessages

PeekVisibilityGrowing(a) == a + 1

\* const visibilityTimeout = (attempt % 3) + 1
PeekVisibilityTimeout(a) == (a % 3) + 1

\* the input of the ReceiveMessageCommand of round a
PeekCommand(a) ==
  [MaxNumberOfMessages |-> BATCH_MAX,
   VisibilityTimeout |-> PeekVisibilityTimeout(a),
   WaitTimeSeconds |-> IF a = 0 THEN 3 ELSE 1]

SeenHasNever(seen, id) == FALSE

\* seenMessageIds.has(messageId)
SeenHas(seen, id) == id \in seen

PushFront(all, message) == <<message>> \o all

\* allMessages.push(message)
Push(all, message) == Append(all, message)

\* the for loop over one batch: the state after messages[i..]
RECURSIVE ProcessBatch(_, _, _, _, _)
ProcessBatch(messages, i, seen, all, newMessageCount) ==
  IF i > Len(messages)
  THEN [seen |-> seen, all |-> all, newMessageCount |-> newMessageCount]
  ELSE LET id == OrEmpty(messages[i].MessageId) IN
       IF SeenHas(seen, id)
       THEN ProcessBatch(messages, i + 1, seen, all, newMessageCount)
       ELSE ProcessBatch(messages, i + 1, seen \cup {id},
                         Push(all, ToMessage(messages[i])), newMessageCount + 1)

EmptyRoundBreaksLate(a, count) == a > EMPTY_STOP_AFTER

EmptyRoundBreaksOnCount(a, count) ==
  \/ a = 0 /\ count # 0
  \/ a > EMPTY_STOP_AFTER

\* the two breaks of an empty round
EmptyRoundBreaks(a, count) ==
  \/ a = 0 /\ count = 0
  \/ a > EMPTY_STOP_AFTER

\* the break of a round that added nothing new
NoNewBreaks(a, newMessageCount) == newMessageCount = 0 /\ a > EMPTY_STOP_AFTER

\* the break of a round that filled the result
CapBreaks(all, k) == Len(all) >= k

PeekResultWhole(all, k) == all

\* return allMessages.slice(0, maxMessages)
PeekResult(all, k) == Slice(all, k)

\* leaving the loop: the function returns
PeekReturn(all) ==
  /\ pc' = "done"
  /\ outcome' = "returned"
  /\ result' = PeekResult(all, maxMessages)
  /\ attempt' = attempt

\* the end of the loop body: the delay when a further round follows
EndOfRound(all) ==
  IF attempt < requestsNeeded - 1
  THEN /\ pc' = "delay"
       /\ UNCHANGED <<outcome, result, attempt>>
  ELSE PeekReturn(all)

\* await getQueueAttributes(queueUrl) resolves
PeekStart ==
  /\ op = "peek" /\ pc = "attributes"
  /\ \E failed \in BOOLEAN, Attributes \in AttributeReplies :
       LET attributes == GetQueueAttributes(failed, Attributes)
           count == ParseInt(OrZero(attributes.ApproximateNumberOfMessages))
       IN /\ approximateCount' = count
          /\ requestsNeeded' = RequestsNeeded(count)
          /\ lastReply' = Lookup(failed, Attributes)
  /\ attempt' = 0
  /\ pc' = "receive"
  /\ sent' = sent \cup {GetQueueAttributesCommand}
  /\ UNCHANGED <<stored, hidden, script>>
  /\ UNCHANGED <<op, outcome, result, maxMessages, messageId, seenMessageIds,
                 allMessages, receiveCalls, allFailed, allEmpty,
                 firstDelivery, redelivered, command>>
  /\ UNCHANGED frame

PeekRoundFailsAborting ==
  /\ op = "peek" /\ pc = "receive"
  /\ Send(PeekCommand(attempt))
  /\ Transport("error", << >>)
  /\ PeekReturn(allMessages)
  /\ UNCHANGED <<op, maxMessages, messageId, approximateCount, requestsNeeded,
                 seenMessageIds, allMessages>>
  /\ UNCHANGED frame

\* await client.send(command) rejects: the round's catch logs it
PeekRoundFails ==
  /\ op = "peek" /\ pc = "receive"
  /\ Send(PeekCommand(attempt))
  /\ Transport("error", << >>)
  /\ EndOfRound(allMessages)
  /\ UNCHANGED <<op, maxMessages, messageId, approximateCount, requestsNeeded,
                 seenMessageIds, allMessages>>
  /\ UNCHANGED frame

\* await client.send(command) resolves with no message
PeekRoundEmpty ==
  /\ op = "peek" /\ pc = "receive"
  /\ Send(PeekCommand(attempt))
  /\ \E Messages \in {<< >>, << << >> >>} :
       /\ Len(MessagesOf(Messages)) = 0
       /\ Transport("empty", << >>)
  /\ IF EmptyRoundBreaks(attempt, approximateCount)
     THEN PeekReturn(allMessages)
     ELSE \* continue: the next round starts without the delay
          IF attempt + 1 < requestsNeeded
          THEN /\ attempt' = attempt + 1
               /\ pc' = "receive"
               /\ UNCHANGED <<outcome, result>>
          ELSE PeekReturn(allMessages)
  /\ UNCHANGED <<op, maxMessages, messageId, approximateCount, requestsNeeded,
                 seenMessageIds, allMessages>>
  /\ UNCHANGED frame

\* await client.send(command) resolves with messages
PeekRoundBatch ==
  /\ op = "peek" /\ pc = "receive"
  /\ Send(PeekCommand(attempt))
  /\ \E Messages \in Replies(receiveCalls + 1) :
       LET messages == MessagesOf(Messages)
           after == ProcessBatch(messages, 1, seenMessageIds, allMessages, 0)
       IN /\ Len(messages) # 0
          /\ Transport("messages", messages)
          /\ seenMessageIds' = after.seen
          /\ allMessages' = after.all
          /\ IF \/ NoNewBreaks(attempt, after.newMessageCount)
                \/ CapBreaks(after.all, maxMessages)
             THEN PeekReturn(after.all)
             ELSE EndOfRound(after.all)
  /\ UNCHANGED <<op, maxMessages, messageId, approximateCount, requestsNeeded>>
  /\ UNCHANGED frame

\* the 300 ms timer between two rounds fires
PeekDelay ==
  /\ op = "peek" /\ pc = "delay"
  /\ attempt' = attempt + 1
  /\ pc' = "receive"
  /\ UNCHANGED <<op, outcome, result, maxMessages, messageId, approximateCount,
                 requestsNeeded, seenMessageIds, allMessages, receiveCalls,
                 allFailed, allEmpty, lastReply, firstDelivery, redelivered,
                 command>>
  /\ UNCHANGED frame
  /\ UNCHANGED <<sent, stored, hidden, script>>

\* ---- receiveMessageById

\* the input of the ReceiveMessageCommand of attempt a
RefetchCommand(a) ==
  [MaxNumberOfMessages |-> BATCH_MAX,
   VisibilityTimeout |-> LONG_VISIBILITY,
   WaitTimeSeconds |-> IF a = 0 THEN 2 ELSE 1]

RECURSIVE FindLast(_, _)
FindLast(messages, id) ==
  IF Len(messages) = 0 THEN << >>
  ELSE IF messages[Len(messages)].MessageId = <<id>> THEN <<messages[Len(messages)]>>
       ELSE FindLast(SubSeq(messages, 1, Len(messages) - 1), id)

\* messages.find(msg => msg.MessageId === messageId): << >> when there is none
RECURSIVE Find(_, _)
Find(messages, id) ==
  IF Len(messages) = 0 THEN << >>
  ELSE IF Head(messages).MessageId = <<id>> THEN <<Head(messages)>>
       ELSE Find(Tail(messages), id)

RefetchReturn(found) ==
  /\ pc' = "done"
  /\ outcome' = "returned"
  /\ result' = found
  /\ attempt' = attempt

RefetchRoundFailsUncaught ==
  /\ op = "refetch" /\ pc = "receive"
  /\ Send(RefetchCommand(attempt))
  /\ Transport("error", << >>)
  /\ pc' = "done" /\ outcome' = "threw"
  /\ UNCHANGED <<op, result, attempt, maxMessages, messageId, approximateCount,
                 requestsNeeded, seenMessageIds, allMessages>>
  /\ UNCHANGED frame

\* await client.send(command) rejects: the function's catch returns null
RefetchRoundFails ==
  /\ op = "refetch" /\ pc = "receive"
  /\ Send(RefetchCommand(attempt))
  /\ Transport("error", << >>)
  /\ RefetchReturn(<< >>)
  /\ UNCHANGED <<op, maxMessages, messageId, approximateCount, requestsNeeded,
                 seenMessageIds, allMessages>>
  /\ UNCHANGED frame

\* await client.send(command) resolves
RefetchRoundReplies ==
  /\ op = "refetch" /\ pc = "receive"
  /\ Send(RefetchCommand(attempt))
  /\ \E Messages \in Replies(receiveCalls + 1) :
       LET messages == MessagesOf(Messages)
           message == Find(messages, messageId)
       IN /\ Transport(IF Len(messages) = 0 THEN "empty" ELSE "messages", messages)
          /\ IF message # << >>
             THEN RefetchReturn(<<ToMessage(message[1])>>)
             ELSE IF attempt < MAX_ATTEMPTS - 1
                  THEN /\ pc' = "delay"
                       /\ UNCHANGED <<outcome, result, attempt>>
                  ELSE RefetchReturn(<< >>)
  /\ UNCHANGED <<op, maxMessages, messageId, approximateCount, requestsNeeded,
                 seenMessageIds, allMessages>>
  /\ UNCHANGED frame

\* the 300 ms timer between two attempts fires
RefetchDelay ==
  /\ op = "refetch" /\ pc = "delay"
  /\ attempt' = attempt + 1
  /\ pc' = "receive"
  /\ UNCHANGED <<op, outcome, result, maxMessages, messageId, approximateCount,
                 requestsNeeded, seenMessageIds, allMessages, receiveCalls,
                 allFailed, allEmpty, lastReply, firstDelivery, redelivered,
                 command>>
  /\ UNCHANGED frame
  /\ UNCHANGED <<sent, stored, hidden, script>>

\* ---- receiveMessages

\* the input of the ReceiveMessageCommand: MaxNumberOfMessages is the parameter
ReceiveCommand(k) ==
  [MaxNumberOfMessages |-> k,
   VisibilityTimeout |-> LONG_VISIBILITY,
   WaitTimeSeconds |-> 0]

\* (response.Messages || []).map(...)
RECURSIVE MapToMessage(_)
MapToMessage(messages) ==
  IF Len(messages) = 0 THEN << >>
  ELSE <<ToMessage(Head(messages))>> \o MapToMessage(Tail(messages))

\* await client.send(command) rejects: the function's catch returns []
ReceiveFails ==
  /\ op = "receive" /\ pc = "receive"
  /\ Send(ReceiveCommand(maxMessages))
  /\ Transport("error", << >>)
  /\ pc' = "done" /\ outcome' = "returned" /\ result' = << >>
  /\ UNCHANGED <<op, attempt, maxMessages, messageId, approximateCount,
                 requestsNeeded, seenMessageIds, allMessages>>
  /\ UNCHANGED frame

\* await client.send(command) resolves
ReceiveReplies ==
  /\ op = "receive" /\ pc = "receive"
  /\ Send(ReceiveCommand(maxMessages))
  /\ \E Messages \in Replies(receiveCalls + 1) :
       LET messages == MessagesOf(Messages)
       IN /\ Transport(IF Len(messages) = 0 THEN "empty" ELSE "messages", messages)
          /\ result' = MapToMessage(messages)
  /\ pc' = "done" /\ outcome' = "returned"
  /\ UNCHANGED <<op, attempt, maxMessages, messageId, approximateCount,
                 requestsNeeded, seenMessageIds, allMessages>>
  /\ UNCHANGED frame

\* the values of maxMessages the messages endpoint hands to receiveMessages:
\* parseInt of the max parameter, 10 without it
ReceiveMaxValues == (0..MaxK) \cup {DEFAULT_MAX, PAGE_MAX}

\* ---- deleteMessage, and the DELETE handler of the messages endpoint

\* a value used as a condition: undefined and '' are falsy
Truthy(x) == x # << >> /\ x[1] # EmptyString

\* receipt handles a client can hold: issued before this request (call 0)
ClientHandles == {<< >>, <<EmptyString>>} \cup {<<h>> : h \in 1..MaxBatch}

ClientIds == {<< >>, <<EmptyString>>} \cup {<<i>> : i \in 1..NumIds}

\* the bodies request.json() can yield: objects, with or without the three
\* fields the handler reads
Bodies ==
  [receiptHandle : ClientHandles, messageId : ClientIds, peekMode : BOOLEAN,
   object : {TRUE}]

\* the body handleDeleteMessage of the queue page sends for message id
HandleDeleteBody(id) ==
  [receiptHandle |-> << >>, messageId |-> <<id>>, peekMode |-> TRUE, object |-> TRUE]

\* the handler answers
Respond(code) ==
  /\ status' = code
  /\ route' = "responded"

\* deleteMessage(decodedQueueUrl, h) is entered
CallDeleteMessage(h) ==
  /\ op' = "delete"
  /\ pc' = "send"
  /\ handle' = h
  /\ deleteAttempt' = 0
  /\ route' = "delete"
  /\ UNCHANGED status

\* await request.json() rejects: the handler's catch answers 500
DeleteBodyInvalid ==
  /\ route = "json"
  /\ Respond(500)
  /\ UNCHANGED <<op, pc, outcome, result, maxMessages, messageId, approximateCount,
                 requestsNeeded, attempt, seenMessageIds, allMessages, receiveCalls,
                 allFailed, allEmpty, lastReply, firstDelivery, redelivered, command,
                 request, handle, deleteAttempt, deleteCalls>>
  /\ UNCHANGED <<sent, stored, hidden, script>>
  /\ UNCHANGED apart

DeleteBodyParsedWithoutLastBranch ==
  /\ route = "json"
  /\ \E body \in Bodies :
       /\ request' = body
       /\ IF body.peekMode /\ Truthy(body.messageId)
          THEN /\ op' = "refetch"
               /\ pc' = "receive"
               /\ messageId' = body.messageId[1]
               /\ route' = "refetch"
               /\ UNCHANGED <<status, handle, deleteAttempt>>
          ELSE /\ CallDeleteMessage(OrEmpty(body.receiptHandle))
               /\ UNCHANGED messageId
  /\ UNCHANGED <<outcome, result, maxMessages, approximateCount, requestsNeeded,
                 attempt, seenMessageIds, allMessages, receiveCalls, allFailed,
                 allEmpty, lastReply, firstDelivery, redelivered, command,
                 deleteCalls>>
  /\ UNCHANGED <<sent, stored, hidden, script>>
  /\ UNCHANGED apart

\* await request.json() resolves: the handler takes one of its three branches
DeleteBodyParsed ==
  /\ route = "json"
  /\ \E body \in Bodies :
       /\ request' = body
       /\ IF body.peekMode /\ Truthy(body.messageId)
          THEN /\ op' = "refetch"
               /\ pc' = "receive"
               /\ messageId' = body.messageId[1]
               /\ route' = "refetch"
               /\ UNCHANGED <<status, handle, deleteAttempt>>
          ELSE IF Truthy(body.receiptHandle)
               THEN /\ CallDeleteMessage(body.receiptHandle[1])
                    /\ UNCHANGED messageId
               ELSE /\ Respond(400)
                    /\ UNCHANGED <<op, pc, messageId, handle, deleteAttempt>>
  /\ UNCHANGED <<outcome, result, maxMessages, approximateCount, requestsNeeded,
                 attempt, seenMessageIds, allMessages, receiveCalls, allFailed,
                 allEmpty, lastReply, firstDelivery, redelivered, command,
                 deleteCalls>>
  /\ UNCHANGED <<sent, stored, hidden, script>>
  /\ UNCHANGED apart

DeleteRefetchedAnswering500 ==
  /\ route = "refetch" /\ op = "refetch" /\ pc = "done"
  /\ IF result = << >>
     THEN /\ Respond(500)
          /\ UNCHANGED <<op, pc, handle, deleteAttempt>>
     ELSE CallDeleteMessage(result[1].receiptHandle)
  /\ UNCHANGED <<outcome, result, maxMessages, messageId, approximateCount,
                 requestsNeeded, attempt, seenMessageIds, allMessages, receiveCalls,
                 allFailed, allEmpty, lastReply, firstDelivery, redelivered, command,
                 request, deleteCalls>>
  /\ UNCHANGED <<sent, stored, hidden, script>>
  /\ UNCHANGED apart

DeleteRefetchedKeepingClientHandle ==
  /\ route = "refetch" /\ op = "refetch" /\ pc = "done"
  /\ IF result = << >>
     THEN /\ Respond(404)
          /\ UNCHANGED <<op, pc, handle, deleteAttempt>>
     ELSE CallDeleteMessage(IF Truthy(request.receiptHandle)
                            THEN request.receiptHandle[1]
                            ELSE result[1].receiptHandle)
  /\ UNCHANGED <<outcome, result, maxMessages, messageId, approximateCount,
                 requestsNeeded, attempt, seenMessageIds, allMessages, receiveCalls,
                 allFailed, allEmpty, lastReply, firstDelivery, redelivered, command,
                 request, deleteCalls>>
  /\ UNCHANGED <<sent, stored, hidden, script>>
  /\ UNCHANGED apart

\* await receiveMessageById(...) resolves: 404 without a message, else the
\* delete with the receipt handle of the message found
DeleteRefetched ==
  /\ route = "refetch" /\ op = "refetch" /\ pc = "done"
  /\ IF result = << >>
     THEN /\ Respond(404)
          /\ UNCHANGED <<op, pc, handle, deleteAttempt>>
     ELSE CallDeleteMessage(result[1].receiptHandle)
  /\ UNCHANGED <<outcome, result, maxMessages, messageId, approximateCount,
                 requestsNeeded, attempt, seenMessageIds, allMessages, receiveCalls,
                 allFailed, allEmpty, lastReply, firstDelivery, redelivered, command,
                 request, deleteCalls>>
  /\ UNCHANGED <<sent, stored, hidden, script>>
  /\ UNCHANGED apart

\* the stored messages a receipt handle of this request stands for
HandleIds(h) ==
  {OrEmpty(firstDelivery[k].MessageId) : k \in {j \in DOMAIN firstDelivery :
                                                  firstDelivery[j].ReceiptHandle = <<h>>}}

\* new DeleteMessageCommand({ReceiptHandle: receiptHandle}), sent
SendDelete ==
  /\ deleteCalls' = Append(deleteCalls, handle)
  /\ sent' = sent \cup {DeleteMessageCommand}

\* await client.send(command) resolves: deleteMessage returns true, the handler
\* answers 200
DeleteSendAccepted ==
  /\ op = "delete" /\ pc = "send"
  /\ SendDelete
  /\ QueueAfter(DeleteMessageCommand, HandleIds(handle))
  /\ UNCHANGED script
  /\ pc' = "done"
  /\ Respond(200)
  /\ UNCHANGED <<op, outcome, result, maxMessages, messageId, approximateCount,
                 requestsNeeded, attempt, seenMessageIds, allMessages, receiveCalls,
                 allFailed, allEmpty, lastReply, firstDelivery, redelivered, command,
                 request, handle, deleteAttempt>>
  /\ UNCHANGED apart

DeleteSendRejectedGivingUpEarly ==
  /\ op = "delete" /\ pc = "send"
  /\ SendDelete
  /\ UNCHANGED <<stored, hidden, script>>
  /\ IF deleteAttempt = DELETE_MAX_ATTEMPTS - 2
     THEN /\ pc' = "done"
          /\ Respond(500)
     ELSE /\ pc' = "wait"
          /\ UNCHANGED <<status, route>>
  /\ UNCHANGED <<op, outcome, result, maxMessages, messageId, approximateCount,
                 requestsNeeded, attempt, seenMessageIds, allMessages, receiveCalls,
                 allFailed, allEmpty, lastReply, firstDelivery, redelivered, command,
                 request, handle, deleteAttempt>>
  /\ UNCHANGED apart

\* await client.send(command) rejects: a retry after 200 ms, or, in the last
\* attempt, deleteMessage returns false and the handler answers 500
DeleteSendRejected ==
  /\ op = "delete" /\ pc = "send"
  /\ SendDelete
  /\ UNCHANGED <<stored, hidden, script>>
  /\ IF deleteAttempt = DELETE_MAX_ATTEMPTS - 1
     THEN /\ pc' = "done"
          /\ Respond(500)
     ELSE /\ pc' = "wait"
          /\ UNCHANGED <<status, route>>
  /\ UNCHANGED <<op, outcome, result, maxMessages, messageId, approximateCount,
                 requestsNeeded, attempt, seenMessageIds, allMessages, receiveCalls,
                 allFailed, allEmpty, lastReply, firstDelivery, redelivered, command,
                 request, handle, deleteAttempt>>
  /\ UNCHANGED apart

\* the 200 ms timer before a retry fires
DeleteWait ==
  /\ op = "delete" /\ pc = "wait"
  /\ deleteAttempt' = deleteAttempt + 1
  /\ pc' = "send"
  /\ UNCHANGED <<op, outcome, result, maxMessages, messageId, approximateCount,
                 requestsNeeded, attempt, seenMessageIds, allMessages, receiveCalls,
                 allFailed, allEmpty, lastReply, firstDelivery, redelivered, command,
                 route, request, status, handle, deleteCalls>>
  /\ UNCHANGED <<sent, stored, hidden, script>>
  /\ UNCHANGED apart

\* ---- one invocation of peekMessages, receiveMessageById or receiveMessages

\* the locals and the transport's record at the start of an invocation
Fresh ==
  /\ outcome = "running"
  /\ result = << >>
  /\ approximateCount = 0
  /\ requestsNeeded = 0
  /\ attempt = 0
  /\ seenMessageIds = {}
  /\ allMessages = << >>
  /\ receiveCalls = 0
  /\ allFailed = TRUE
  /\ allEmpty = TRUE
  /\ lastReply = "none"
  /\ firstDelivery = << >>
  /\ redelivered = FALSE
  /\ command = << >>

\* no body has been read: request.json() is pending, or it was rejected, or it
\* yielded null
NoRequest ==
  [receiptHandle |-> << >>, messageId |-> << >>, peekMode |-> FALSE, object |-> FALSE]

\* no request handler around the invocation
NoRoute ==
  /\ route = "none"
  /\ request = NoRequest
  /\ status = 0
  /\ handle = EmptyString
  /\ deleteAttempt = 0
  /\ deleteCalls = << >>

\* no reply awaited by a twin
NoScript == [call |-> 0, kind |-> "none", messages |-> << >>]

\* the queue of the deployment, as the page hands it over
QueueUrl == "https://sqs.us-east-1.amazonaws.com/000000000000/queue"

\* a caller that hands over the queue of the deployment and waits for the result
NoCaller ==
  /\ script = NoScript
  /\ queueUrl = QueueUrl
  /\ cancelled = FALSE

\* no queue page in front of the server
NoPage ==
  /\ mounted = FALSE
  /\ pageMessages = << >>
  /\ deletingMessageIds = {}
  /\ handlers = {}
  /\ refreshInterval = << >>
  /\ effectInterval = << >>
  /\ intervals = {}
  /\ fetching = 0
  /\ deleted = {}

\* no queue behind the transport, a single invocation
NoQueue ==
  /\ sent = {}
  /\ transport = "any"
  /\ stored = {}
  /\ hidden = {}
  /\ second = FALSE
  /\ previous = << >>
  /\ suspended = << >>
  /\ overlapped = FALSE
  /\ NoCaller
  /\ NoPage

Init ==
  /\ \/ /\ op = "peek"
        /\ pc = "attributes"
        /\ maxMessages \in 0..MaxK
        /\ messageId = EmptyString
     \/ /\ op = "refetch"
        /\ pc = "receive"
        /\ maxMessages = 0
        /\ messageId \in 1..NumIds
     \/ /\ op = "receive"
        /\ pc = "receive"
        /\ maxMessages \in ReceiveMaxValues
        /\ messageId = EmptyString
  /\ Fresh
  /\ NoRoute
  /\ NoQueue

Next ==
  \/ PeekStart
  \/ PeekRoundFails
  \/ PeekRoundEmpty
  \/ PeekRoundBatch
  \/ PeekDelay
  \/ RefetchRoundFails
  \/ RefetchRoundReplies
  \/ RefetchDelay
  \/ ReceiveFails
  \/ ReceiveReplies

Spec == Init /\ [][Next]_vars

\* every await is resolved in the end: the transport answers or rejects each
\* command within its timeouts, and the timers fire
LiveInit == Init /\ op = "peek" /\ maxMessages \in {0, NumIds}

LiveNext ==
  \/ PeekStart
  \/ PeekRoundFails
  \/ PeekRoundEmpty
  \/ PeekRoundBatch
  \/ PeekDelay

LiveSpec == LiveInit /\ [][LiveNext]_vars /\ WF_vars(LiveNext)

\* ---- one DELETE request to the messages endpoint

DeleteInit ==
  /\ op = "none"
  /\ pc = "none"
  /\ maxMessages = 0
  /\ messageId = EmptyString
  /\ Fresh
  /\ route = "json"
  /\ request = NoRequest
  /\ status = 0
  /\ handle = EmptyString
  /\ deleteAttempt = 0
  /\ deleteCalls = << >>
  /\ NoQueue

DeleteNext ==
  \/ DeleteBodyInvalid
  \/ DeleteBodyParsed
  \/ RefetchRoundFails
  \/ RefetchRoundReplies
  \/ RefetchDelay
  \/ DeleteRefetched
  \/ DeleteSendAccepted
  \/ DeleteSendRejected
  \/ DeleteWait

DeleteSpec == DeleteInit /\ [][DeleteNext]_vars

\* ---- what one invocation has observed and returned

PeekDone == op = "peek" /\ pc = "done"

RefetchDone == op = "refetch" /\ pc = "done"

\* the Message fields of the k-th id the transport delivered for the first time
FirstOf(k) ==
  [id |-> OrEmpty(firstDelivery[k].MessageId),
   body |-> firstDelivery[k].Body[1],
   receiptHandle |-> firstDelivery[k].ReceiptHandle[1]]

\* the places of firstDelivery that hold the id asked for by receiveMessageById
TargetDeliveries == {k \in DOMAIN firstDelivery : firstDelivery[k].MessageId = <<messageId>>}

\* ---- claims

\* C1: within one result of peekMessages every message id appears at most once,
\* and the entry kept for an id carries the receipt handle and the body of the
\* first delivery of that id; later deliveries of the id are discarded.
C1_DedupFirstHandleWins ==
  PeekDone =>
    /\ \A i, j \in DOMAIN result : result[i].id = result[j].id => i = j
    /\ \A i \in DOMAIN result : \E k \in DOMAIN firstDelivery : result[i] = FirstOf(k)

\* C1 witness: the last round delivered only ids that had come in earlier rounds,
\* and the result holds each id once, with the handle of the earlier round
C1_Witness ==
  /\ PeekDone /\ redelivered /\ receiveCalls >= 2 /\ lastReply = "messages"
  /\ result # << >> /\ Len(result) = Len(firstDelivery)
  /\ \A i \in DOMAIN result : CallOf(result[i].receiptHandle) < receiveCalls

\* C2: for every maxMessages k the returned sequence has at most k entries,
\* also when the transport delivered more than k distinct messages.
C2_BoundedOutput ==
  PeekDone => Len(result) <= maxMessages

\* C2 witness: more distinct messages were delivered and collected than k
C2_Witness ==
  /\ PeekDone /\ maxMessages >= 1
  /\ Len(firstDelivery) > maxMessages /\ Len(allMessages) > maxMessages
  /\ Len(result) = maxMessages

\* C3: the result holds the first maxMessages distinct ids in the order the
\* transport delivered them (round order, then position in the round), each as
\* first delivered, and nothing else.
C3_FirstKInArrivalOrder ==
  PeekDone =>
    result = [i \in 1..Min(maxMessages, Len(firstDelivery)) |-> FirstOf(i)]

\* C3 witness: the distinct ids arrived over several rounds and exceed the cap
C3_Witness ==
  /\ PeekDone /\ maxMessages >= 2
  /\ Len(firstDelivery) > maxMessages /\ Len(result) = maxMessages
  /\ CallOf(result[1].receiptHandle) < CallOf(result[maxMessages].receiptHandle)

\* C4: once a reply of receiveMessageById holds the target id, in attempt n, the
\* invocation has returned that message with the receipt handle of attempt n and
\* has made exactly n receive calls.
C4_FoundAtAttemptN ==
  op = "refetch" =>
    \A k \in TargetDeliveries :
      /\ pc = "done" /\ outcome = "returned"
      /\ result = <<FirstOf(k)>>
      /\ receiveCalls = CallOf(firstDelivery[k].ReceiptHandle[1])
      /\ receiveCalls = attempt + 1 /\ receiveCalls <= 5

\* C4 witness: the target surfaced in the third attempt
C4_Witness ==
  /\ RefetchDone /\ TargetDeliveries # {} /\ receiveCalls = 3
  /\ Len(result) = 1 /\ CallOf(result[1].receiptHandle) = 3

\* C5: when every receive call is answered and no reply holds the target id,
\* receiveMessageById returns null after exactly 5 receive calls.
C5_ExhaustedAfterFive ==
  /\ op = "refetch" => receiveCalls <= 5
  /\ (RefetchDone /\ lastReply # "error" /\ TargetDeliveries = {}) =>
       (result = << >> /\ outcome = "returned" /\ receiveCalls = 5)

\* C5 witness: five answered calls, none with the target
C5_Witness ==
  /\ RefetchDone /\ lastReply # "error" /\ TargetDeliveries = {}
  /\ receiveCalls = 5 /\ firstDelivery # << >>

\* C6: whatever the transport rejects, peekMessages and receiveMessageById return
\* (an array, a message or null) and never throw.
C6_NeverThrows ==
  /\ outcome # "threw"
  /\ pc = "done" => outcome = "returned"
  /\ RefetchDone => Len(result) <= 1

\* C6 witness: a rejected receive ended a refetch with null
C6_Witness ==
  RefetchDone /\ lastReply = "error" /\ outcome = "returned" /\ result = << >>

\* C7: a rejected receive in one round of peekMessages discards nothing and does
\* not end the collection: all that was delivered before is kept, the next round
\* follows unless this was the last one, and the result of a run still holds the
\* earlier messages up to the cap (nothing, when every round was rejected).
C7_FailedRoundKeepsCollecting ==
  (op = "peek" /\ lastReply = "error") =>
    /\ allMessages = [i \in 1..Len(firstDelivery) |-> FirstOf(i)]
    /\ pc \in {"delay", "receive", "done"}
    /\ pc = "done" =>
         /\ receiveCalls = requestsNeeded
         /\ result = [i \in 1..Min(maxMessages, Len(allMessages)) |-> allMessages[i]]
         /\ allFailed => result = << >>

\* C7 witness: a round was rejected after messages had been collected, the
\* collection went on and the result holds them
C7_Witness ==
  /\ PeekDone /\ lastReply = "error" /\ ~allFailed
  /\ Len(result) >= 1 /\ receiveCalls = requestsNeeded

\* C8 (as claimed): after a rejected receive peekMessages stops or goes on as it
\* would after an empty reply in the same round with the same advisory count.
C8_FailedRoundStopsLikeEmptyRound ==
  (op = "peek" /\ lastReply = "error" /\ pc \in {"delay", "done"}) =>
    (pc = "done" <=> EmptyRoundBreaks(attempt, approximateCount))

\* C9 (as claimed): a rejected receive does not end receiveMessageById: it returns
\* null only when the 5 attempts are spent.
C9_ErrorDoesNotAbortRefetch ==
  (RefetchDone /\ result = << >>) => receiveCalls = 5

\* C10: with an advisory count of 0 and a transport that returns no message,
\* peekMessages stops after the first receive call and returns the empty array.
C10_EmptyQueueStopsAfterFirstRound ==
  (op = "peek" /\ receiveCalls >= 1 /\ allEmpty /\ approximateCount = 0) =>
    /\ receiveCalls = 1
    /\ pc = "done" /\ outcome = "returned" /\ result = << >>

\* C10 witness: the first reply was empty and the count 0
C10_Witness ==
  PeekDone /\ allEmpty /\ receiveCalls = 1 /\ approximateCount = 0 /\ result = << >>

\* ---- two invocations in a row against a queue that nothing else touches

\* the ids of a list of Messages
MessageIds(messages) == {messages[i].id : i \in DOMAIN messages}

\* a function of app/lib/sqs.ts is entered: its locals are new
Enter(o, k, id) ==
  /\ op' = o
  /\ pc' = (IF o = "peek" THEN "attributes" ELSE "receive")
  /\ maxMessages' = k
  /\ messageId' = id
  /\ outcome' = "running"
  /\ result' = << >>
  /\ approximateCount' = 0
  /\ requestsNeeded' = 0
  /\ attempt' = 0
  /\ seenMessageIds' = {}
  /\ allMessages' = << >>
  /\ receiveCalls' = 0
  /\ allFailed' = TRUE
  /\ allEmpty' = TRUE
  /\ lastReply' = "none"
  /\ firstDelivery' = << >>
  /\ redelivered' = FALSE
  /\ command' = << >>

\* the first invocation has returned: the caller invokes peekMessages or
\* receiveMessageById again, after the visibility timeouts of the first have
\* run out
NextInvocation ==
  /\ transport = "queue" /\ pc = "done" /\ ~second
  /\ second' = TRUE
  /\ hidden' = {}
  /\ \/ \E k \in 0..MaxK : Enter("peek", k, EmptyString)
     \/ \E id \in 1..NumIds : Enter("refetch", 0, id)
  /\ UNCHANGED <<route, request, status, handle, deleteAttempt, deleteCalls,
                 sent, transport, stored, previous, suspended, overlapped,
                 script, queueUrl, cancelled, page>>

\* peekMessages has returned: the caller keeps what it returned and invokes it
\* again with the same maxMessages, after the visibility timeouts have run out
PeekAgain ==
  /\ transport = "queue" /\ op = "peek" /\ pc = "done" /\ ~second
  /\ second' = TRUE
  /\ previous' = <<[maxMessages |-> maxMessages,
                    ids |-> MessageIds(result),
                    complete |-> (IdsOf(firstDelivery) = stored)]>>
  /\ hidden' = {}
  /\ Enter("peek", maxMessages, EmptyString)
  /\ UNCHANGED <<route, request, status, handle, deleteAttempt, deleteCalls,
                 sent, transport, stored, suspended, overlapped,
                 script, queueUrl, cancelled, page>>

\* the visibility timeout of a received message runs out; the queue is only
\* looked at when a receive is sent, so the step is taken right before one
Expire ==
  /\ transport = "queue" /\ pc = "receive"
  /\ \E id \in hidden : hidden' = hidden \ {id}
  /\ UNCHANGED <<op, pc, outcome, result, maxMessages, messageId, approximateCount,
                 requestsNeeded, attempt, seenMessageIds, allMessages, receiveCalls,
                 allFailed, allEmpty, lastReply, firstDelivery, redelivered, command,
                 route, request, status, handle, deleteAttempt, deleteCalls,
                 sent, transport, stored, second, previous, suspended,
                 overlapped, script, queueUrl, cancelled, page>>

QueueInit ==
  /\ \/ /\ op = "peek"
        /\ pc = "attributes"
        /\ maxMessages \in 0..MaxK
        /\ messageId = EmptyString
     \/ /\ op = "refetch"
        /\ pc = "receive"
        /\ maxMessages = 0
        /\ messageId \in 1..NumIds
  /\ Fresh
  /\ NoRoute
  /\ sent = {}
  /\ transport = "queue"
  /\ stored = 1..NumIds
  /\ hidden = {}
  /\ second = FALSE
  /\ previous = << >>
  /\ suspended = << >>
  /\ overlapped = FALSE
  /\ NoCaller
  /\ NoPage

QueueNext ==
  \/ PeekStart
  \/ PeekRoundFails
  \/ PeekRoundEmpty
  \/ PeekRoundBatch
  \/ PeekDelay
  \/ RefetchRoundFails
  \/ RefetchRoundReplies
  \/ RefetchDelay
  \/ NextInvocation
  \/ Expire

QueueSpec == QueueInit /\ [][QueueNext]_vars

\* ---- peekMessages invoked twice with the same maxMessages against that queue

RepeatInit == QueueInit /\ op = "peek"

RepeatNext ==
  \/ PeekStart
  \/ PeekRoundFails
  \/ PeekRoundEmpty
  \/ PeekRoundBatch
  \/ PeekDelay
  \/ PeekAgain
  \/ Expire

RepeatSpec == RepeatInit /\ [][RepeatNext]_vars

\* ---- two invocations interleaved at their awaits, against that queue

\* the locals of the running invocation, with what the transport recorded of it
Locals ==
  [op |-> op, pc |-> pc, outcome |-> outcome, result |-> result,
   maxMessages |-> maxMessages, messageId |-> messageId,
   approximateCount |-> approximateCount, requestsNeeded |-> requestsNeeded,
   attempt |-> attempt, seenMessageIds |-> seenMessageIds,
   allMessages |-> allMessages, receiveCalls |-> receiveCalls,
   allFailed |-> allFailed, allEmpty |-> allEmpty, lastReply |-> lastReply,
   firstDelivery |-> firstDelivery, redelivered |-> redelivered,
   command |-> command]

\* the locals of an invocation that has just been entered
Entered(o, k, id) ==
  [op |-> o, pc |-> (IF o = "peek" THEN "attributes" ELSE "receive"),
   outcome |-> "running", result |-> << >>,
   maxMessages |-> k, messageId |-> id,
   approximateCount |-> 0, requestsNeeded |-> 0,
   attempt |-> 0, seenMessageIds |-> {},
   allMessages |-> << >>, receiveCalls |-> 0,
   allFailed |-> TRUE, allEmpty |-> TRUE, lastReply |-> "none",
   firstDelivery |-> << >>, redelivered |-> FALSE,
   command |-> << >>]

ResumeSharingAccumulator(l) ==
  /\ op' = l.op
  /\ pc' = l.pc
  /\ outcome' = l.outcome
  /\ result' = l.result
  /\ maxMessages' = l.maxMessages
  /\ messageId' = l.messageId
  /\ approximateCount' = l.approximateCount
  /\ requestsNeeded' = l.requestsNeeded
  /\ attempt' = l.attempt
  /\ seenMessageIds' = l.seenMessageIds
  /\ allMessages' = allMessages
  /\ receiveCalls' = l.receiveCalls
  /\ allFailed' = l.allFailed
  /\ allEmpty' = l.allEmpty
  /\ lastReply' = l.lastReply
  /\ firstDelivery' = l.firstDelivery
  /\ redelivered' = l.redelivered
  /\ command' = l.command

\* the continuation of an invocation runs on the locals of that invocation
Resume(l) ==
  /\ op' = l.op
  /\ pc' = l.pc
  /\ outcome' = l.outcome
  /\ result' = l.result
  /\ maxMessages' = l.maxMessages
  /\ messageId' = l.messageId
  /\ approximateCount' = l.approximateCount
  /\ requestsNeeded' = l.requestsNeeded
  /\ attempt' = l.attempt
  /\ seenMessageIds' = l.seenMessageIds
  /\ allMessages' = l.allMessages
  /\ receiveCalls' = l.receiveCalls
  /\ allFailed' = l.allFailed
  /\ allEmpty' = l.allEmpty
  /\ lastReply' = l.lastReply
  /\ firstDelivery' = l.firstDelivery
  /\ redelivered' = l.redelivered
  /\ command' = l.command

\* an invocation that has made a receive call and has not returned
UnderWay(l) == l.pc # "done" /\ l.receiveCalls >= 1

\* the await of the other invocation resolves first: the event loop runs its
\* continuation; the running one stays suspended at its await. Only the receive
\* calls of two invocations meet, in the queue, so the running one is left at
\* the point where it sends one, or when it has returned.
Switch ==
  /\ suspended # << >>
  /\ suspended[1].pc # "done"
  /\ pc \in {"receive", "done"}
  /\ suspended' = <<Locals>>
  /\ Resume(suspended[1])
  /\ overlapped' = (overlapped \/ (UnderWay(Locals) /\ UnderWay(suspended[1])))
  /\ UNCHANGED <<route, request, status, handle, deleteAttempt, deleteCalls,
                 sent, transport, stored, hidden, second, previous,
                 script, queueUrl, cancelled, page>>

\* a peek and, entered before its first await resolves, a refetch or a second
\* peek; the two overlap for less than a visibility timeout
ConcInit ==
  /\ op = "peek"
  /\ pc = "attributes"
  /\ maxMessages \in {1, NumIds}
  /\ messageId = EmptyString
  /\ Fresh
  /\ NoRoute
  /\ sent = {}
  /\ transport = "queue"
  /\ stored = 1..NumIds
  /\ hidden = {}
  /\ second = FALSE
  /\ previous = << >>
  /\ suspended \in {<<Entered("peek", NumIds, EmptyString)>>}
                    \cup {<<Entered("refetch", 0, id)>> : id \in 1..NumIds}
  /\ overlapped = FALSE
  /\ NoCaller
  /\ NoPage

ConcNext ==
  \/ PeekStart
  \/ PeekRoundFails
  \/ PeekRoundEmpty
  \/ PeekRoundBatch
  \/ PeekDelay
  \/ RefetchRoundFails
  \/ RefetchRoundReplies
  \/ RefetchDelay
  \/ Switch

ConcSpec == ConcInit /\ [][ConcNext]_vars

\* ---- twin invocations of peekMessages
\*
\* Two invocations with the same maxMessages whose n-th receive calls get the
\* same reply, for every n; the replies to GetQueueAttributes are their own.

TwinInit ==
  /\ op = "peek"
  /\ pc = "attributes"
  /\ maxMessages \in 0..MaxK
  /\ messageId = EmptyString
  /\ Fresh
  /\ NoRoute
  /\ sent = {}
  /\ transport = "twin"
  /\ stored = {}
  /\ hidden = {}
  /\ second = FALSE
  /\ previous = << >>
  /\ suspended = <<Entered("peek", maxMessages, EmptyString)>>
  /\ overlapped = FALSE
  /\ NoCaller
  /\ NoPage

TwinNext ==
  \/ PeekStart
  \/ PeekRoundFails
  \/ PeekRoundEmpty
  \/ PeekRoundBatch
  \/ PeekDelay
  \/ Switch

TwinSpec == TwinInit /\ [][TwinNext]_vars

\* ---- claims on twin invocations (TwinSpec)

IsPrefix(s, t) == Len(s) <= Len(t) /\ SubSeq(t, 1, Len(s)) = s

\* both twins have returned
TwinsDone == PeekDone /\ suspended # << >> /\ suspended[1].pc = "done"

\* C25: of two peekMessages runs with the same maxMessages and the same replies
\* to their receive calls, round for round, the one with the smaller advisory
\* count returns a prefix of what the other returns; with equal counts they
\* return the same.
C25_SmallerCountReturnsPrefix ==
  TwinsDone =>
    /\ maxMessages = suspended[1].maxMessages
    /\ approximateCount <= suspended[1].approximateCount =>
         IsPrefix(result, suspended[1].result)
    /\ approximateCount >= suspended[1].approximateCount =>
         IsPrefix(suspended[1].result, result)

\* C25 witness: counts of 5 and 33; the run with 33 made a fifth round, which
\* brought a message the other run does not have
C25_Witness ==
  /\ TwinsDone
  /\ {approximateCount, suspended[1].approximateCount} = {5, 33}
  /\ {receiveCalls, suspended[1].receiveCalls} = {4, 5}
  /\ Len(result) >= 1 /\ Len(suspended[1].result) >= 1
  /\ Len(result) # Len(suspended[1].result)

\* ---- two DELETE requests in a row
\*
\* The queue holds the messages a peek has shown, all visible again, and nothing
\* else touches it. The second request follows the first at once: the two are
\* over within the 30 seconds of a visibility timeout of receiveMessageById
\* (its five attempts wait 2 + 4 * 1 seconds and pause 4 * 300 ms).

\* the first request is answered; the page sends the next one
NextRequest ==
  /\ route = "responded" /\ ~second
  /\ second' = TRUE
  /\ previous' = <<[request |-> request, status |-> status]>>
  /\ route' = "json"
  /\ request' = NoRequest
  /\ status' = 0
  /\ handle' = EmptyString
  /\ deleteAttempt' = 0
  /\ deleteCalls' = << >>
  /\ op' = "none"
  /\ pc' = "none"
  /\ maxMessages' = 0
  /\ messageId' = EmptyString
  /\ outcome' = "running"
  /\ result' = << >>
  /\ approximateCount' = 0
  /\ requestsNeeded' = 0
  /\ attempt' = 0
  /\ seenMessageIds' = {}
  /\ allMessages' = << >>
  /\ receiveCalls' = 0
  /\ allFailed' = TRUE
  /\ allEmpty' = TRUE
  /\ lastReply' = "none"
  /\ firstDelivery' = << >>
  /\ redelivered' = FALSE
  /\ command' = << >>
  /\ UNCHANGED <<queue, transport, suspended, overlapped, queueUrl, cancelled, page>>

TwoDeletesInit ==
  /\ op = "none"
  /\ pc = "none"
  /\ maxMessages = 0
  /\ messageId = EmptyString
  /\ Fresh
  /\ route = "json"
  /\ request = NoRequest
  /\ status = 0
  /\ handle = EmptyString
  /\ deleteAttempt = 0
  /\ deleteCalls = << >>
  /\ sent = {}
  /\ transport = "prompt"
  /\ stored = 1..NumIds
  /\ hidden = {}
  /\ second = FALSE
  /\ previous = << >>
  /\ suspended = << >>
  /\ overlapped = FALSE
  /\ NoCaller
  /\ NoPage

TwoDeletesNext ==
  \/ DeleteBodyInvalid
  \/ DeleteBodyParsed
  \/ RefetchRoundFails
  \/ RefetchRoundReplies
  \/ RefetchDelay
  \/ DeleteRefetched
  \/ DeleteSendAccepted
  \/ DeleteSendRejected
  \/ DeleteWait
  \/ NextRequest

TwoDeletesSpec == TwoDeletesInit /\ [][TwoDeletesNext]_vars

\* ---- claims on two DELETE requests in a row (TwoDeletesSpec)

\* C26 (as claimed): when the page's delete request for a message A was
\* answered 200 and its delete request for another message B follows at once
\* and gets every transport call answered, the request for B is answered 200
\* too, not 404, and the queue holds neither A nor B.
C26_BothDeleted ==
  \A a, b \in 1..NumIds :
    (/\ a # b /\ second /\ route = "responded"
     /\ previous[1].request = HandleDeleteBody(a) /\ previous[1].status = 200
     /\ request = HandleDeleteBody(b)
     /\ lastReply # "error" /\ status # 500) =>
      /\ status = 200
      /\ a \notin stored /\ b \notin stored

\* ---- the queue page (QueueDetail)
\*
\* The component is mounted for one queue: its effect has run once, with the
\* state of the first render, and has called fetchMessages. A state -- set by
\* setMessages and the like -- is what the next handler call finds as its
\* closure; a handler call under way keeps the closure it started with.

\* the server behind the page
server == <<invocation, handler, queue, transport, second, previous, suspended,
            overlapped, queueUrl, cancelled>>

\* messages.filter(msg => msg.id !== messageId)
RECURSIVE Filter(_, _)
Filter(list, id) ==
  IF Len(list) = 0 THEN << >>
  ELSE (IF Head(list) # id THEN <<Head(list)>> ELSE << >>) \o Filter(Tail(list), id)

\* the ids of the rows shown
Shown == {pageMessages[i] : i \in DOMAIN pageMessages}

\* what a peek of the queue can return: messages that are not deleted
PeekData == DistinctSeqs((1..NumIds) \ deleted, NumIds)

\* fetchMessages is called
CallFetchMessages ==
  /\ fetching < MaxFetches
  /\ fetching' = fetching + 1

\* await fetch(...) of fetchMessages resolves: setMessages(data), or the error
FetchMessagesAnswered ==
  /\ fetching > 0
  /\ fetching' = fetching - 1
  /\ \E ok \in BOOLEAN, data \in PeekData :
       pageMessages' = IF ok /\ mounted THEN data ELSE pageMessages
  /\ UNCHANGED <<mounted, deletingMessageIds, handlers, refreshInterval,
                 effectInterval, intervals, deleted>>
  /\ UNCHANGED server

\* the Delete button of a row: handleDeleteMessage(message) up to its await
HandleDeleteMessage ==
  /\ mounted
  /\ \E id \in Shown \ deletingMessageIds :
       /\ deletingMessageIds' = deletingMessageIds \cup {id}
       /\ handlers' = handlers \cup {[messageId |-> id, messages |-> pageMessages]}
  /\ UNCHANGED <<mounted, pageMessages, refreshInterval, effectInterval, intervals,
                 fetching, deleted>>
  /\ UNCHANGED server

\* await fetch(...) of handleDeleteMessage resolves: with a 200,
\* setMessages(messages.filter(...)) on the messages of the handler's closure
HandleDeleteAnswered ==
  /\ \E h \in handlers, ok \in BOOLEAN :
       /\ ok => h.messageId \notin deleted
       /\ deleted' = IF ok THEN deleted \cup {h.messageId} ELSE deleted
       /\ pageMessages' = IF ok /\ mounted
                          THEN Filter(h.messages, h.messageId)
                          ELSE pageMessages
       /\ deletingMessageIds' = IF mounted THEN deletingMessageIds \ {h.messageId}
                                ELSE deletingMessageIds
       /\ handlers' = handlers \ {h}
  /\ UNCHANGED <<mounted, refreshInterval, effectInterval, intervals, fetching>>
  /\ UNCHANGED server

\* the Enable / Disable button of auto-refresh
ToggleAutoRefresh ==
  /\ mounted
  /\ IF refreshInterval # << >>
     THEN /\ intervals' = intervals \ {refreshInterval[1]}
          /\ refreshInterval' = << >>
     ELSE \E interval \in (1..MaxIntervals) \ intervals :
            /\ intervals' = intervals \cup {interval}
            /\ refreshInterval' = <<interval>>
  /\ UNCHANGED <<mounted, pageMessages, deletingMessageIds, handlers, effectInterval,
                 fetching, deleted>>
  /\ UNCHANGED server

\* an interval set with window.setInterval(fetchMessages, 5000) fires
IntervalFires ==
  /\ intervals # {}
  /\ CallFetchMessages
  /\ UNCHANGED <<mounted, pageMessages, deletingMessageIds, handlers, refreshInterval,
                 effectInterval, intervals, deleted>>
  /\ UNCHANGED server

\* the component unmounts: the cleanup of the effect runs, with the
\* refreshInterval the effect closed over
Unmount ==
  /\ mounted
  /\ mounted' = FALSE
  /\ intervals' = IF effectInterval # << >>
                  THEN intervals \ {effectInterval[1]}
                  ELSE intervals
  /\ UNCHANGED <<pageMessages, deletingMessageIds, handlers, refreshInterval,
                 effectInterval, fetching, deleted>>
  /\ UNCHANGED server

PageInit ==
  /\ op = "none"
  /\ pc = "none"
  /\ maxMessages = 0
  /\ messageId = EmptyString
  /\ Fresh
  /\ NoRoute
  /\ sent = {}
  /\ transport = "any"
  /\ stored = {}
  /\ hidden = {}
  /\ second = FALSE
  /\ previous = << >>
  /\ suspended = << >>
  /\ overlapped = FALSE
  /\ NoCaller
  /\ mounted = TRUE
  /\ pageMessages = << >>
  /\ deletingMessageIds = {}
  /\ handlers = {}
  /\ refreshInterval = << >>
  /\ effectInterval = refreshInterval
  /\ intervals = {}
  /\ fetching = 1
  /\ deleted = {}

PageNext ==
  \/ FetchMessagesAnswered
  \/ HandleDeleteMessage
  \/ HandleDeleteAnswered
  \/ ToggleAutoRefresh
  \/ IntervalFires
  \/ Unmount

PageSpec == PageInit /\ [][PageNext]_vars

\* ---- claims on the queue page (PageSpec)

\* C28 (as claimed): once no delete handler is under way, no message whose
\* delete was answered 200 is in the list shown, also when two deletes were
\* under way at the same time.
C28_DeletedMessagesStayRemoved ==
  (mounted /\ handlers = {}) => Shown \cap deleted = {}

\* C29 (as claimed): after the component has unmounted no interval of
\* auto-refresh is left set.
C29_NoIntervalAfterUnmount ==
  ~mounted => intervals = {}

\* ---- one invocation and its caller
\*
\* The GET handler of the messages endpoint decodes the queue reference of the
\* path and hands it to peekMessages as it is; its request can be aborted by
\* the client while peekMessages runs.

\* a path segment that decodes to no queue URL
MalformedUrl == "not-a-queue"

\* Buffer.from(params.queueUrl, 'base64').toString('utf-8'): any string
QueueUrls == {QueueUrl, MalformedUrl}

\* the client aborts the request: peekMessages and receiveMessageById take no
\* signal, the handler passes none
Cancel ==
  /\ ~cancelled /\ pc # "done"
  /\ cancelled' = TRUE
  /\ UNCHANGED <<invocation, handler, queue, transport, second, previous,
                 suspended, overlapped, queueUrl, page>>

CallerInit ==
  /\ \/ /\ op = "peek"
        /\ pc = "attributes"
        /\ maxMessages \in 0..MaxK
        /\ messageId = EmptyString
     \/ /\ op = "refetch"
        /\ pc = "receive"
        /\ maxMessages = 0
        /\ messageId \in 1..NumIds
  /\ Fresh
  /\ NoRoute
  /\ sent = {}
  /\ transport = "any"
  /\ stored = {}
  /\ hidden = {}
  /\ second = FALSE
  /\ previous = << >>
  /\ suspended = << >>
  /\ overlapped = FALSE
  /\ script = NoScript
  /\ queueUrl \in QueueUrls
  /\ cancelled = FALSE
  /\ NoPage

CallerNext ==
  \/ PeekStart
  \/ PeekRoundFails
  \/ PeekRoundEmpty
  \/ PeekRoundBatch
  \/ PeekDelay
  \/ RefetchRoundFails
  \/ RefetchRoundReplies
  \/ RefetchDelay
  \/ Cancel

CallerSpec == CallerInit /\ [][CallerNext]_vars

\* ---- claims on an invocation and its caller (CallerSpec)

\* C21 (as claimed): peekMessages takes a cancellation signal, and once the
\* caller has cancelled, the pause between two rounds ends with the return of
\* what was accumulated so far, not with another round.
C21_CancelAbortsRemainingRounds ==
  [][(op = "peek" /\ cancelled /\ pc = "delay") =>
       /\ pc' = "done" /\ outcome' = "returned"
       /\ result' = PeekResult(allMessages, maxMessages)
       /\ receiveCalls' = receiveCalls]_vars

\* a queue reference of the form of a queue URL
WellFormed(url) == url = QueueUrl

\* C22 (as claimed): with a malformed queue reference no command reaches the
\* transport, and peekMessages and receiveMessageById end with a failure
\* raised to the caller.
C22_MalformedUrlFailsBeforeAnyCall ==
  ~WellFormed(queueUrl) =>
    /\ sent = {} /\ receiveCalls = 0
    /\ pc = "done" => outcome = "threw"

\* ---- claims on the DELETE request (DeleteSpec)

PeekModeRequest == request.peekMode /\ Truthy(request.messageId)

\* C11 (as claimed): every DeleteMessageCommand sent for a DELETE request carries
\* a receipt handle that receiveMessageById returned within that request, never
\* one the client supplied.
C11_DeleteOnlyWithRefetchedHandle ==
  \A i \in DOMAIN deleteCalls :
    /\ result # << >>
    /\ deleteCalls[i] = result[1].receiptHandle
    /\ CallOf(deleteCalls[i]) >= 1

\* C11 (amended): a DELETE request with peekMode and a messageId, which is what
\* the queue page always sends, deletes only with the receipt handle of the
\* message receiveMessageById found for that id within the request, whatever
\* receiptHandle the body carries; a request without them that carries a
\* receiptHandle deletes with that client-supplied handle and makes no refetch.
C11_PeekModeDeleteUsesRefetchedHandle ==
  /\ \A i \in DOMAIN deleteCalls :
       IF PeekModeRequest
       THEN /\ result # << >>
            /\ result[1].id = request.messageId[1]
            /\ deleteCalls[i] = result[1].receiptHandle
            /\ \E k \in TargetDeliveries :
                 firstDelivery[k].ReceiptHandle = <<deleteCalls[i]>>
            /\ CallOf(deleteCalls[i]) = receiveCalls
       ELSE /\ Truthy(request.receiptHandle)
            /\ deleteCalls[i] = request.receiptHandle[1]
            /\ receiveCalls = 0
  /\ (deleteCalls # << >> /\ \E id \in 1..NumIds : request = HandleDeleteBody(id)) =>
       (receiveCalls >= 1 /\ CallOf(deleteCalls[1]) >= 1)

\* C11 witness: a peek-mode request that also carried a handle of the client was
\* answered 200 after a refetch of several attempts and a retried delete, all
\* sent with the refetched handle
C11_Witness ==
  /\ route = "responded" /\ status = 200
  /\ PeekModeRequest /\ Truthy(request.receiptHandle)
  /\ receiveCalls >= 2 /\ Len(deleteCalls) >= 2
  /\ \A i \in DOMAIN deleteCalls : CallOf(deleteCalls[i]) = receiveCalls

\* C23: when receiveMessageById has returned null within a peek-mode DELETE
\* request, the handler answers 404, not the 500 of a failed delete, and no
\* DeleteMessageCommand is sent; 404 is answered in no other case.
C23_NotFoundAnswers404 ==
  /\ (route = "responded" /\ PeekModeRequest /\ result = << >>) =>
       /\ status = 404
       /\ deleteCalls = << >> /\ "DeleteMessage" \notin sent
  /\ status = 404 =>
       /\ route = "responded" /\ PeekModeRequest
       /\ RefetchDone /\ result = << >> /\ deleteCalls = << >>

\* C23 witness: the five attempts of the refetch were answered without the
\* message asked for, and the request was answered 404
C23_Witness ==
  /\ route = "responded" /\ status = 404 /\ PeekModeRequest
  /\ receiveCalls = MAX_ATTEMPTS /\ lastReply = "messages"
  /\ result = << >> /\ deleteCalls = << >>

\* C27: deleteMessage sends at most 3 DeleteMessageCommands, all with the receipt
\* handle it was given, one per attempt; an accepted one ends it with true (the
\* handler answers 200) and no further command; it ends with false (the handler
\* answers 500), and without throwing, exactly when the third one in a row was
\* rejected.
C27_DeleteRetriesUpToThree ==
  /\ Len(deleteCalls) <= 3
  /\ \A i \in DOMAIN deleteCalls : deleteCalls[i] = handle
  /\ deleteAttempt <= 2
  /\ outcome # "threw"
  /\ op = "delete" =>
       /\ Len(deleteCalls) = (IF pc = "send" THEN deleteAttempt ELSE deleteAttempt + 1)
       /\ pc = "done" <=> route = "responded"
       /\ pc = "done" => status \in {200, 500}
       /\ pc # "done" => status = 0
       /\ status = 500 => Len(deleteCalls) = 3
       /\ (pc = "done" /\ Len(deleteCalls) < 3) => status = 200

\* C27 witness: two rejected commands, then an accepted third one
C27_Witness ==
  /\ op = "delete" /\ pc = "done" /\ status = 200
  /\ Len(deleteCalls) = 3 /\ deleteAttempt = 2

\* the body carries neither peekMode with a messageId nor a receiptHandle
CarriesNeither == ~PeekModeRequest /\ ~Truthy(request.receiptHandle)

C12_QueueContentUnchanged ==
  /\ sent \subseteq {"GetQueueAttributes", "ReceiveMessage"}
  /\ deleteCalls = << >>
  /\ stored = 1..NumIds
  /\ hidden \subseteq stored

\* C12 witness: a peek and then a refetch that found its message have run, the
\* message found is now invisible, and all messages are still stored
C12_Witness ==
  /\ second /\ "GetQueueAttributes" \in sent
  /\ RefetchDone /\ result # << >> /\ result[1].id \in hidden
  /\ stored = 1..NumIds

\* ---- claims on two peeks of a queue (RepeatSpec)

\* the two invocations were peeks with the same maxMessages, both have returned
TwoPeeksDone ==
  /\ second /\ PeekDone
  /\ previous # << >> /\ previous[1].maxMessages = maxMessages

\* C15 (as claimed): against an unchanging queue with no competing consumer two
\* peekMessages calls with the same maxMessages return the same set of ids.
C15_TwoPeeksSameIds ==
  TwoPeeksDone => MessageIds(result) = previous[1].ids

\* C15 (amended): against such a queue every peekMessages call returns ids of
\* stored messages only, and two calls with the same maxMessages return the
\* same set, all stored ids, when maxMessages is at least the number of stored
\* messages and each call was delivered every stored message at least once.
C15_PeeksReturnStoredIds ==
  /\ PeekDone => MessageIds(result) \subseteq stored
  /\ previous # << >> => previous[1].ids \subseteq stored
  /\ (/\ TwoPeeksDone /\ maxMessages >= Cardinality(stored)
      /\ previous[1].complete /\ IdsOf(firstDelivery) = stored) =>
       (MessageIds(result) = stored /\ previous[1].ids = stored)

\* C15 witness: two peeks with the same maxMessages, each delivered all the
\* stored messages, the second over several rounds, returned all of them
C15_Witness ==
  /\ TwoPeeksDone /\ maxMessages >= Cardinality(stored)
  /\ previous[1].complete /\ previous[1].ids = stored
  /\ MessageIds(result) = stored /\ Len(result) >= 2
  /\ CallOf(result[1].receiptHandle) < CallOf(result[Len(result)].receiptHandle)

\* ---- claims on two interleaved invocations (ConcSpec)

\* the Message fields of the k-th first delivery recorded for invocation l
DeliveredTo(l, k) ==
  [id |-> OrEmpty(l.firstDelivery[k].MessageId),
   body |-> l.firstDelivery[k].Body[1],
   receiptHandle |-> l.firstDelivery[k].ReceiptHandle[1]]

\* invocation l holds and returns only what its own receive calls delivered
OwnMessagesOnly(l) ==
  /\ \A i \in DOMAIN l.allMessages :
       \E k \in DOMAIN l.firstDelivery : l.allMessages[i] = DeliveredTo(l, k)
  /\ l.op = "peek" => l.seenMessageIds = IdsOf(l.firstDelivery)
  /\ l.pc = "done" =>
       IF l.op = "peek"
       THEN /\ \A i, j \in DOMAIN l.result : l.result[i].id = l.result[j].id => i = j
            /\ Len(l.result) <= l.maxMessages
            /\ l.result = [i \in 1..Min(l.maxMessages, Len(l.firstDelivery)) |->
                              DeliveredTo(l, i)]
       ELSE /\ Len(l.result) <= 1
            /\ \A i \in DOMAIN l.result :
                 /\ l.result[i].id = l.messageId
                 /\ \E k \in DOMAIN l.firstDelivery : l.result[i] = DeliveredTo(l, k)

C13_StopsOnlyAfterTwoZeroNewRounds ==
  (/\ PeekDone /\ lastReply # "error"
   /\ attempt < requestsNeeded - 1
   /\ Len(allMessages) < maxMessages
   /\ ~(attempt = 0 /\ approximateCount = 0)) =>
    \A i \in DOMAIN allMessages :
      CallOf(allMessages[i].receiptHandle) < receiveCalls - 1

\* C14 (as claimed): once the accumulated result has reached maxMessages, no
\* further receive call is issued: after a first call, an invocation that is
\* about to make another one holds fewer than maxMessages messages.
C14_NoReceiveAfterCap ==
  (op = "peek" /\ receiveCalls >= 1 /\ pc \in {"receive", "delay"}) =>
    Len(allMessages) < maxMessages

\* C16 (as claimed): between two consecutive receive calls of one peekMessages
\* invocation the delay is taken: no step leads from the reply to one receive
\* call straight to the point where the next one is sent.
C16_DelayBetweenReceives ==
  [][(op = "peek" /\ pc = "receive") => pc' # "receive"]_vars

\* C24: one invocation of peekMessages reads the advisory count once, at its
\* start, takes it as 0 when the lookup fails or the reply has no count, plans
\* max(4, ceil(count / 8)) rounds, sends at most that many receive calls, and
\* returns in the end, whatever the transport answers.
C24_BoundedRoundsAndTermination ==
  /\ [](op = "peek" =>
         /\ pc = "attributes" => (receiveCalls = 0 /\ sent = {})
         /\ pc # "attributes" =>
              /\ requestsNeeded = Max(4, (approximateCount + 7) \div 8)
              /\ receiveCalls <= requestsNeeded
              /\ attempt < requestsNeeded
              /\ receiveCalls = (IF pc = "receive" THEN attempt ELSE attempt + 1)
         /\ lastReply \in {"lookup failed", "no count"} =>
              (approximateCount = 0 /\ requestsNeeded = 4))
  /\ [][(op = "peek" /\ pc # "attributes") =>
          (approximateCount' = approximateCount /\ requestsNeeded' = requestsNeeded)]_vars
  /\ (op = "peek") ~> (op = "peek" /\ pc = "done" /\ outcome = "returned")

\* C24 witness: a count of 33 and five rounds, all made
C24_Witness ==
  /\ PeekDone /\ approximateCount = 33 /\ requestsNeeded = 5 /\ receiveCalls = 5

\* C17: every receive sent by peekMessages has a visibility timeout of 1 to 3
\* seconds; every receive sent by receiveMessageById has one of 30 seconds,
\* longer than that of any round of peekMessages.
C17_VisibilityTimeouts ==
  /\ (op = "peek" /\ command # << >>) =>
       /\ command[1].VisibilityTimeout \in 1..3
       /\ command[1].VisibilityTimeout = PeekVisibilityTimeout(receiveCalls - 1)
  /\ (op = "refetch" /\ command # << >>) =>
       /\ command[1].VisibilityTimeout = 30
       /\ \A a \in 0..requestsNeeded + MAX_ATTEMPTS :
            command[1].VisibilityTimeout > PeekVisibilityTimeout(a)

\* C17 witness: the fourth round of a peek, where the timeout is back at 1
\* second after 1, 2 and 3
C17_Witness ==
  /\ op = "peek" /\ receiveCalls = 4
  /\ command # << >> /\ command[1].VisibilityTimeout = 1

\* C18 (as claimed): every ReceiveMessageCommand asks for at most 10 messages,
\* whatever maxMessages the caller gave, receiveMessages included.
C18_AtMostTenPerReceive ==
  command # << >> => command[1].MaxNumberOfMessages <= 10

\* C19 (as claimed): an invocation of receiveMessageById searches from attempt 0
\* (one receive call per attempt, nothing returned yet) until it ends, and it
\* ends either found, with the message, or exhausted, with null after the
\* 5 attempts are spent.
C19_SearchingThenFoundOrExhausted ==
  op = "refetch" =>
    /\ pc # "done" =>
         /\ outcome = "running" /\ result = << >>
         /\ receiveCalls = (IF pc = "delay" THEN attempt + 1 ELSE attempt)
    /\ pc = "done" =>
         /\ outcome = "returned" /\ receiveCalls = attempt + 1
         /\ \/ result # << >> /\ TargetDeliveries # {}
            \/ result = << >> /\ receiveCalls = MAX_ATTEMPTS

====
